---- MODULE Spec2Model ----
(***************************************************************************)
(* Transport selection and device enumeration of streamdeck.DeviceManager  *)
(* (src/src/streamdeck/device_manager.py).                                 *)
(*                                                                         *)
(* One DeviceManager is observed.  `manager` is the object (or NoManager   *)
(* while no constructor call has succeeded), `bus` is the USB bus as the   *)
(* transport reports it, and `last` is the outcome the most recent public  *)
(* call handed to its caller: its arguments, the collaborator calls it     *)
(* made, and what it returned or raised.  `changed` tells whether a device *)
(* was plugged in or out since that call.                                  *)
(***************************************************************************)
EXTENDS Integers, Sequences, FiniteSets, TLC

VARIABLES manager, bus, last, nextInst, enumCalls, changed

vars == <<manager, bus, last, nextInst, enumCalls, changed>>

(***************************************************************************)
(* Bounds of the model.                                                    *)
(***************************************************************************)
MaxDevices == 3     \* devices attached to the bus at the same time
MaxCalls == 2       \* enumerate() calls of one behaviour

(***************************************************************************)
(* Program constants.                                                      *)
(***************************************************************************)
USB_VID_ELGATO == 4057                  \* 0x0fd9
USB_PID_STREAMDECK_ORIGINAL == 96       \* 0x0060
USB_PID_STREAMDECK_ORIGINAL_V2 == 109   \* 0x006d
USB_PID_STREAMDECK_MINI == 99           \* 0x0063
USB_PID_STREAMDECK_XL == 108            \* 0x006c

\* The keys of the `transports` dict, in insertion order (the order in which
\* dict.items() yields them).
transports == <<"dummy", "libusb">>

Registered == {transports[i] : i \in 1..Len(transports)}

\* The product table of enumerate().
products ==
  << [vid |-> USB_VID_ELGATO, pid |-> USB_PID_STREAMDECK_ORIGINAL,    cls |-> "StreamDeckOriginal"],
     [vid |-> USB_VID_ELGATO, pid |-> USB_PID_STREAMDECK_ORIGINAL_V2, cls |-> "StreamDeckOriginalV2"],
     [vid |-> USB_VID_ELGATO, pid |-> USB_PID_STREAMDECK_MINI,        cls |-> "StreamDeckMini"],
     [vid |-> USB_VID_ELGATO, pid |-> USB_PID_STREAMDECK_XL,          cls |-> "StreamDeckXL"] >>

(***************************************************************************)
(* Values.                                                                 *)
(***************************************************************************)
NoManager == [transport |-> [backend |-> "", inst |-> 0]]
NoExc == [type |-> "none"]
NoArg == [given |-> FALSE, name |-> ""]
NoEnv == [b \in Registered |-> "ok"]

\* The `transport` argument of the constructor: None (not given) or a string.
Arg(name) == [given |-> TRUE, name |-> name]
Args == {NoArg} \cup {Arg(n) : n \in {"", "dummy", "libusb", "hidapi", "LibUSB"}}

\* Python truth value of the argument: None and the empty string are false.
Truthy(t) == t.given /\ t.name # ""

\* A call of a collaborator (a backend class or the transport instance).
Call(fn, on) == [fn |-> fn, on |-> on]

\* The exception a backend raises from probe() or from its constructor.
Raised(b, stage) == [type |-> "Exception", by |-> b, at |-> stage]

\* What a backend does when probed and constructed: "ok", or it raises from
\* probe(), or probe() passes and the constructor raises.  The stub's
\* constructor does nothing and cannot raise.
Outcomes(b) == IF b = "dummy" THEN {"ok", "probe"} ELSE {"ok", "probe", "construct"}

Envs == {e \in [Registered -> {"ok", "probe", "construct"}] :
           \A b \in Registered : e[b] \in Outcomes(b)}

\* The physical devices that may be plugged in: one or two of each supported
\* product and one Elgato product this table does not list (pid 0x0080).
Universe ==
  { [vid |-> USB_VID_ELGATO, pid |-> USB_PID_STREAMDECK_ORIGINAL,    path |-> "1-1"],
    [vid |-> USB_VID_ELGATO, pid |-> USB_PID_STREAMDECK_ORIGINAL_V2, path |-> "1-2"],
    [vid |-> USB_VID_ELGATO, pid |-> USB_PID_STREAMDECK_ORIGINAL_V2, path |-> "1-3"],
    [vid |-> USB_VID_ELGATO, pid |-> USB_PID_STREAMDECK_MINI,        path |-> "1-4"],
    [vid |-> USB_VID_ELGATO, pid |-> USB_PID_STREAMDECK_XL,          path |-> "1-5"],
    [vid |-> USB_VID_ELGATO, pid |-> 128,                            path |-> "1-6"] }

Range(s) == {s[i] : i \in 1..Len(s)}

(***************************************************************************)
(* ProbeError and its three uses in _get_transport.                        *)
(***************************************************************************)
ProbeError(args) == [type |-> "ProbeError", args |-> args]

UnknownMsg(name) == [fmt |-> "Unknown HID transport backend \"{}\".", with |-> name]
FailedMsg(name) == [fmt |-> "Probe failed on HID backend \"{}\".", with |-> name]
NoneMsg == [fmt |-> "Probe failed to find any functional HID backend.", with |-> ""]

(***************************************************************************)
(* _get_transport                                                          *)
(***************************************************************************)
\* Fault: the stub is not a key of the dict.
LookupNoStub(name) ==
  IF name \in Registered /\ name # "dummy" THEN name ELSE "None"

\* transports.get(name): the registered backend class, or None.
Lookup(name) == IF name \in Registered THEN name ELSE "None"

\* The body of both try blocks: transport_class.probe(); return transport_class()
TryBackend(env, b, inst) ==
  IF env[b] = "probe"
    THEN [raised |-> TRUE, exc |-> Raised(b, "probe"),
          ret |-> NoManager.transport, calls |-> <<Call("probe", b)>>]
  ELSE IF env[b] = "construct"
    THEN [raised |-> TRUE, exc |-> Raised(b, "construct"),
          ret |-> NoManager.transport,
          calls |-> <<Call("probe", b), Call("construct", b)>>]
  ELSE [raised |-> FALSE, exc |-> NoExc,
        ret |-> [backend |-> b, inst |-> inst],
        calls |-> <<Call("probe", b), Call("construct", b)>>]

\* Fault: when the named backend fails, the other registered backends are
\* tried in turn instead of raising.
ExplicitSelectFallback(name, env, inst) ==
  LET transport_class == Lookup(name) IN
  IF transport_class = "None"
    THEN [raised |-> TRUE, exc |-> ProbeError(<<UnknownMsg(name)>>),
          ret |-> NoManager.transport, calls |-> <<>>]
  ELSE LET r == TryBackend(env, transport_class, inst)
           others == SelectSeq(transports, LAMBDA b : b # transport_class)
           o == IF others = <<>> THEN r ELSE TryBackend(env, others[1], inst)
       IN IF ~r.raised THEN r
          ELSE IF ~o.raised THEN [o EXCEPT !.calls = r.calls \o o.calls]
          ELSE [r EXCEPT !.exc = ProbeError(<<FailedMsg(name), r.exc>>)]

\* The branch taken when the argument is true: one named backend.
ExplicitSelect(name, env, inst) ==
  LET transport_class == Lookup(name) IN
  IF transport_class = "None"
    THEN [raised |-> TRUE, exc |-> ProbeError(<<UnknownMsg(name)>>),
          ret |-> NoManager.transport, calls |-> <<>>]
  ELSE LET r == TryBackend(env, transport_class, inst) IN
       IF r.raised
         THEN [r EXCEPT !.exc = ProbeError(<<FailedMsg(name), r.exc>>)]
         ELSE r

\* Fault: the loop does not skip the stub.
RECURSIVE AutoProbeNoSkip(_, _, _, _, _)
AutoProbeNoSkip(i, probe_errors, calls, env, inst) ==
  IF i > Len(transports)
    THEN [raised |-> TRUE, exc |-> ProbeError(<<NoneMsg, probe_errors>>),
          ret |-> NoManager.transport, calls |-> calls]
  ELSE LET transport_name == transports[i]
           r == TryBackend(env, transport_name, inst) IN
       IF r.raised
         THEN AutoProbeNoSkip(i + 1,
                              [b \in (DOMAIN probe_errors) \cup {transport_name} |->
                                 IF b = transport_name THEN r.exc ELSE probe_errors[b]],
                              calls \o r.calls, env, inst)
         ELSE [r EXCEPT !.calls = calls \o r.calls]

\* Fault: a failing candidate is not recorded in probe_errors.
RECURSIVE AutoProbeForget(_, _, _, _, _)
AutoProbeForget(i, probe_errors, calls, env, inst) ==
  IF i > Len(transports)
    THEN [raised |-> TRUE, exc |-> ProbeError(<<NoneMsg, probe_errors>>),
          ret |-> NoManager.transport, calls |-> calls]
  ELSE LET transport_name == transports[i] IN
       IF transport_name = "dummy"
         THEN AutoProbeForget(i + 1, probe_errors, calls, env, inst)
       ELSE LET r == TryBackend(env, transport_name, inst) IN
            IF r.raised
              THEN AutoProbeForget(i + 1, probe_errors, calls \o r.calls, env, inst)
              ELSE [r EXCEPT !.calls = calls \o r.calls]

\* The loop of the else branch, from the i-th item of transports.items() on,
\* with the probe_errors dict and the collaborator calls made so far.
RECURSIVE AutoProbe(_, _, _, _, _)
AutoProbe(i, probe_errors, calls, env, inst) ==
  IF i > Len(transports)
    THEN [raised |-> TRUE, exc |-> ProbeError(<<NoneMsg, probe_errors>>),
          ret |-> NoManager.transport, calls |-> calls]
  ELSE LET transport_name == transports[i] IN
       IF transport_name = "dummy"
         THEN AutoProbe(i + 1, probe_errors, calls, env, inst)
       ELSE LET r == TryBackend(env, transport_name, inst) IN
            IF r.raised
              THEN AutoProbe(i + 1,
                             [b \in (DOMAIN probe_errors) \cup {transport_name} |->
                                IF b = transport_name THEN r.exc ELSE probe_errors[b]],
                             calls \o r.calls, env, inst)
              ELSE [r EXCEPT !.calls = calls \o r.calls]

EmptyDict == [b \in {} |-> NoExc]

GetTransport(t, env, inst) ==
  IF Truthy(t)
    THEN ExplicitSelect(t.name, env, inst)
    ELSE AutoProbe(1, EmptyDict, <<>>, env, inst)

(***************************************************************************)
(* enumerate                                                               *)
(***************************************************************************)
\* transport.enumerate(vid, pid): the attached devices with that vendor and
\* product id, in the order the bus lists them.
TransportEnumerate(b, vid, pid) ==
  SelectSeq(b, LAMBDA d : d.vid = vid /\ d.pid = pid)

\* The fault of the transport's enumerate for one query.
TransportFault(vid, pid) == [type |-> "TransportError", vid |-> vid, pid |-> pid]

\* class_type(d): a new wrapper object; `id` is its identity.
Wrap(class_type, d, id) == [cls |-> class_type, device |-> d, id |-> id]

\* Fault: the matches of a product are put in front of the list instead of
\* at its end.
RECURSIVE EnumerateLoopPrepend(_, _, _, _, _, _)
EnumerateLoopPrepend(i, streamdecks, calls, b, faultAt, callNo) ==
  IF i > Len(products)
    THEN [raised |-> FALSE, exc |-> NoExc, ret |-> streamdecks, calls |-> calls]
  ELSE LET p == products[i]
           q == Call("enumerate", <<p.vid, p.pid>>) IN
       IF faultAt = i
         THEN [raised |-> TRUE, exc |-> TransportFault(p.vid, p.pid),
               ret |-> <<>>, calls |-> Append(calls, q)]
       ELSE LET found_devices == TransportEnumerate(b, p.vid, p.pid)
                new == [k \in 1..Len(found_devices) |->
                          Wrap(p.cls, found_devices[k], <<callNo, Len(streamdecks) + k>>)]
            IN EnumerateLoopPrepend(i + 1, new \o streamdecks, Append(calls, q),
                                    b, faultAt, callNo)

\* Fault: a faulting query is taken as an empty answer and the loop goes on.
RECURSIVE EnumerateLoopSwallow(_, _, _, _, _, _)
EnumerateLoopSwallow(i, streamdecks, calls, b, faultAt, callNo) ==
  IF i > Len(products)
    THEN [raised |-> FALSE, exc |-> NoExc, ret |-> streamdecks, calls |-> calls]
  ELSE LET p == products[i]
           q == Call("enumerate", <<p.vid, p.pid>>)
           found_devices == IF faultAt = i THEN <<>>
                            ELSE TransportEnumerate(b, p.vid, p.pid)
           new == [k \in 1..Len(found_devices) |->
                     Wrap(p.cls, found_devices[k], <<callNo, Len(streamdecks) + k>>)]
       IN EnumerateLoopSwallow(i + 1, streamdecks \o new, Append(calls, q),
                               b, faultAt, callNo)

\* The for loop of enumerate() from the i-th product on.  faultAt is the
\* number of the query at which the transport faults (0: none does), callNo
\* numbers the call, so that <<callNo, k>> is the k-th object it allocates.
RECURSIVE EnumerateLoop(_, _, _, _, _, _)
EnumerateLoop(i, streamdecks, calls, b, faultAt, callNo) ==
  IF i > Len(products)
    THEN [raised |-> FALSE, exc |-> NoExc, ret |-> streamdecks, calls |-> calls]
  ELSE LET p == products[i]
           q == Call("enumerate", <<p.vid, p.pid>>) IN
       IF faultAt = i
         THEN [raised |-> TRUE, exc |-> TransportFault(p.vid, p.pid),
               ret |-> <<>>, calls |-> Append(calls, q)]
       ELSE LET found_devices == TransportEnumerate(b, p.vid, p.pid)
                new == [k \in 1..Len(found_devices) |->
                          Wrap(p.cls, found_devices[k], <<callNo, Len(streamdecks) + k>>)]
            IN EnumerateLoop(i + 1, streamdecks \o new, Append(calls, q),
                             b, faultAt, callNo)

(***************************************************************************)
(* The state machine.                                                      *)
(***************************************************************************)
NoCall == [op |-> "none", arg |-> NoArg, env |-> NoEnv, faultAt |-> 0,
           raised |-> FALSE, exc |-> NoExc, calls |-> <<>>,
           transport |-> NoManager.transport, devices |-> <<>>,
           repeat |-> FALSE]

Init ==
  /\ manager = NoManager
  /\ bus = <<>>
  /\ last = NoCall
  /\ nextInst = 1
  /\ enumCalls = 0
  /\ changed = FALSE

\* DeviceManager(transport=t), with the backends behaving as env says.
Construct ==
  /\ manager = NoManager
  /\ \E t \in Args, env \in Envs :
       LET r == GetTransport(t, env, nextInst) IN
       /\ manager' = IF r.raised THEN NoManager ELSE [transport |-> r.ret]
       /\ nextInst' = IF r.raised THEN nextInst ELSE nextInst + 1
       /\ last' = [NoCall EXCEPT !.op = "construct", !.arg = t, !.env = env,
                                 !.raised = r.raised, !.exc = r.exc,
                                 !.calls = r.calls, !.transport = r.ret]
  /\ UNCHANGED <<bus, enumCalls, changed>>

\* Fault: enumerate() keeps the list of its last successful call and hands
\* it out again instead of asking the transport.
EnumerateCached ==
  /\ manager # NoManager
  /\ enumCalls < MaxCalls
  /\ \E faultAt \in 0..Len(products) :
       LET r == EnumerateLoop(1, <<>>, <<>>, bus, faultAt, enumCalls + 1)
           hit == last.op = "enumerate" /\ ~last.raised IN
       last' = [NoCall EXCEPT !.op = "enumerate", !.faultAt = faultAt,
                              !.raised = IF hit THEN FALSE ELSE r.raised,
                              !.exc = IF hit THEN NoExc ELSE r.exc,
                              !.calls = IF hit THEN <<>> ELSE r.calls,
                              !.devices = IF hit THEN last.devices ELSE r.ret,
                              !.transport = manager.transport,
                              !.repeat = (last.op = "enumerate" /\ ~last.raised
                                          /\ ~changed)]
  /\ enumCalls' = enumCalls + 1
  /\ changed' = FALSE
  /\ UNCHANGED <<manager, bus, nextInst>>

\* Fault: enumerate() selects a transport again before it scans.
EnumerateReselect ==
  /\ manager # NoManager
  /\ enumCalls < MaxCalls
  /\ \E faultAt \in 0..Len(products), env \in Envs :
       LET s == GetTransport(NoArg, env, nextInst)
           r == EnumerateLoop(1, <<>>, <<>>, bus, faultAt, enumCalls + 1) IN
       /\ manager' = IF s.raised THEN manager ELSE [transport |-> s.ret]
       /\ nextInst' = IF s.raised THEN nextInst ELSE nextInst + 1
       /\ last' = [NoCall EXCEPT !.op = "enumerate", !.faultAt = faultAt,
                                 !.raised = r.raised, !.exc = r.exc,
                                 !.calls = s.calls \o r.calls, !.devices = r.ret,
                                 !.transport = manager'.transport,
                                 !.repeat = (last.op = "enumerate" /\ ~last.raised
                                             /\ ~changed)]
  /\ enumCalls' = enumCalls + 1
  /\ changed' = FALSE
  /\ UNCHANGED bus

\* manager.enumerate(), the transport faulting at query faultAt (0: never).
\* last.repeat records that the call follows a successful enumerate() with
\* no change of the bus in between.
Enumerate ==
  /\ manager # NoManager
  /\ enumCalls < MaxCalls
  /\ \E faultAt \in 0..Len(products) :
       LET r == EnumerateLoop(1, <<>>, <<>>, bus, faultAt, enumCalls + 1) IN
       last' = [NoCall EXCEPT !.op = "enumerate", !.faultAt = faultAt,
                              !.raised = r.raised, !.exc = r.exc,
                              !.calls = r.calls, !.devices = r.ret,
                              !.transport = manager.transport,
                              !.repeat = (last.op = "enumerate" /\ ~last.raised
                                          /\ ~changed)]
  /\ enumCalls' = enumCalls + 1
  /\ changed' = FALSE
  /\ UNCHANGED <<manager, bus, nextInst>>

\* A device is plugged in.
Attach ==
  /\ Len(bus) < MaxDevices
  /\ \E d \in Universe \ Range(bus) : bus' = Append(bus, d)
  /\ changed' = TRUE
  /\ UNCHANGED <<manager, last, nextInst, enumCalls>>

\* A device is unplugged.
Detach ==
  /\ \E i \in 1..Len(bus) :
       bus' = [k \in 1..(Len(bus) - 1) |-> IF k < i THEN bus[k] ELSE bus[k + 1]]
  /\ changed' = TRUE
  /\ UNCHANGED <<manager, last, nextInst, enumCalls>>

Next == Construct \/ Enumerate \/ Attach \/ Detach

Spec == Init /\ [][Next]_vars

(***************************************************************************)
(* Vocabulary of the properties.                                           *)
(***************************************************************************)
\* The registry entries auto-probing may try: all but the stub, in order.
Candidates == SelectSeq(transports, LAMBDA b : b # "dummy")

\* The backends probed by a sequence of collaborator calls, in order.
Probed(calls) ==
  LET ps == SelectSeq(calls, LAMBDA c : c.fn = "probe")
  IN [i \in 1..Len(ps) |-> ps[i].on]

IsPrefix(s, t) == Len(s) <= Len(t) /\ \A i \in 1..Len(s) : s[i] = t[i]

Constructed == last.op = "construct"
Enumerated == last.op = "enumerate"

\* The three kinds of ProbeError.
IsUnknownBackend(e, name) ==
  e.type = "ProbeError" /\ e.args = <<UnknownMsg(name)>>
IsProbeFailed(e, name, cause) ==
  e.type = "ProbeError" /\ Len(e.args) = 2 /\ e.args[1] = FailedMsg(name)
    /\ e.args[2] = cause
IsNoFunctionalBackend(e) ==
  e.type = "ProbeError" /\ Len(e.args) = 2 /\ e.args[1] = NoneMsg

\* The steps of the two public operations.
EnumStep == enumCalls' = enumCalls + 1
ConstructStep == last'.op = "construct" /\ enumCalls' = enumCalls

\* The product a wrapper class belongs to, and a device's place on the bus.
SigIndex(w) == CHOOSE i \in 1..Len(products) : products[i].cls = w.cls
PosIn(b, d) == CHOOSE i \in 1..Len(b) : b[i] = d
Supported(d) == \E i \in 1..Len(products) :
                  products[i].vid = d.vid /\ products[i].pid = d.pid

\* devs is the list enumerate() owes for bus b: every supported device of b
\* once, under the class of its product, products in table order and the
\* devices of one product in bus order.
Grouped(devs, b) ==
  /\ \A k \in 1..Len(devs) :
       /\ \E i \in 1..Len(products) : products[i].cls = devs[k].cls
       /\ devs[k].device \in Range(b)
       /\ products[SigIndex(devs[k])].vid = devs[k].device.vid
       /\ products[SigIndex(devs[k])].pid = devs[k].device.pid
  /\ \A d \in Range(b) :
       Cardinality({k \in 1..Len(devs) : devs[k].device = d})
         = IF Supported(d) THEN 1 ELSE 0
  /\ \A j, k \in 1..Len(devs) :
       j < k => \/ SigIndex(devs[j]) < SigIndex(devs[k])
                \/ /\ SigIndex(devs[j]) = SigIndex(devs[k])
                   /\ PosIn(b, devs[j].device) < PosIn(b, devs[k].device)

\* A list of wrappers without the identities of the wrappers.
Structure(devs) ==
  [k \in 1..Len(devs) |-> [cls |-> devs[k].cls, device |-> devs[k].device]]
Ids(devs) == {devs[k].id : k \in 1..Len(devs)}

\* The queries one enumerate() call makes when nothing faults.
AllQueries ==
  [i \in 1..Len(products) |-> Call("enumerate", <<products[i].vid, products[i].pid>>)]

(***************************************************************************)
(* C1: a name given explicitly that is no key of the registry, the empty   *)
(* string included, always fails with the unknown-backend ProbeError, and  *)
(* no backend is probed or constructed.                                    *)
(***************************************************************************)
C1_UnregisteredNameIsUnknownBackend ==
  (Constructed /\ last.arg.given /\ last.arg.name \notin Registered) =>
    /\ last.raised
    /\ IsUnknownBackend(last.exc, last.arg.name)
    /\ last.calls = <<>>
    /\ manager = NoManager

(***************************************************************************)
(* C2: a registered backend named explicitly whose probe or construction   *)
(* fails gives the probe-failed ProbeError naming that backend, with that  *)
(* failure as cause; only that backend is called and nothing is returned.  *)
(***************************************************************************)
C2_ExplicitFailureIsProbeFailedNoFallback ==
  (Constructed /\ last.arg.given /\ last.arg.name \in Registered
     /\ last.env[last.arg.name] # "ok") =>
    /\ last.raised
    /\ IsProbeFailed(last.exc, last.arg.name,
                     Raised(last.arg.name, last.env[last.arg.name]))
    /\ \A i \in 1..Len(last.calls) : last.calls[i].on = last.arg.name
    /\ last.calls # <<>>
    /\ last.transport = NoManager.transport
    /\ manager = NoManager

C2_Witness ==
  /\ Constructed /\ last.arg = Arg("libusb")
  /\ last.env["libusb"] = "construct" /\ last.env["dummy"] = "ok"
  /\ last.raised

(***************************************************************************)
(* C3: without a name the non-stub registry entries are tried one after    *)
(* another in registration order, the first that probes and constructs is  *)
(* returned and no later one is probed; the stub is never called or        *)
(* returned, not even when every real backend fails.                       *)
(***************************************************************************)
C3_AutoProbeFirstSuccessInOrder ==
  (Constructed /\ ~last.arg.given) =>
    LET probed == Probed(last.calls) IN
    /\ \A i \in 1..Len(last.calls) : last.calls[i].on # "dummy"
    /\ IsPrefix(probed, Candidates)
    /\ \A i \in 1..Len(probed) : i < Len(probed) => last.env[probed[i]] # "ok"
    /\ last.raised <=> (\A i \in 1..Len(Candidates) : last.env[Candidates[i]] # "ok")
    /\ ~last.raised =>
         /\ probed # <<>>
         /\ last.transport.backend = probed[Len(probed)]
         /\ last.env[last.transport.backend] = "ok"
         /\ last.transport.backend # "dummy"
         /\ manager = [transport |-> last.transport]

C3_Witness ==
  /\ Constructed /\ ~last.arg.given /\ ~last.raised
  /\ last.env["dummy"] = "ok"
  /\ last.transport.backend = "libusb"

(***************************************************************************)
(* C4: without a name, when every non-stub backend fails, every one of     *)
(* them has been tried and the no-functional-backend ProbeError carries a  *)
(* map with exactly one entry per non-stub backend, each that backend's    *)
(* own failure.                                                            *)
(***************************************************************************)
C4_AllFailGivesOneCausePerCandidate ==
  (Constructed /\ ~last.arg.given
     /\ \A i \in 1..Len(Candidates) : last.env[Candidates[i]] # "ok") =>
    /\ last.raised
    /\ IsNoFunctionalBackend(last.exc)
    /\ Probed(last.calls) = Candidates
    /\ DOMAIN last.exc.args[2] = Range(Candidates)
    /\ \A b \in Range(Candidates) :
         /\ last.exc.args[2][b] = Raised(b, last.env[b])
         /\ last.exc.args[2][b] # NoExc
    /\ manager = NoManager

C4_Witness ==
  /\ Constructed /\ ~last.arg.given /\ last.raised
  /\ last.env["libusb"] = "construct" /\ last.env["dummy"] = "ok"
  /\ "libusb" \in DOMAIN last.exc.args[2]

(***************************************************************************)
(* C5: when no query faults, enumerate() returns the matches of the        *)
(* products in table order, each wrapped by its product's class, the       *)
(* transport's order kept inside a product, nothing dropped, duplicated or *)
(* reclassified; with no match at all it returns the empty list.           *)
(***************************************************************************)
C5_EnumerateGroupsBySignature ==
  [][(EnumStep /\ last'.faultAt = 0) =>
       /\ ~last'.raised
       /\ Grouped(last'.devices, bus)
       /\ (~(\E d \in Range(bus) : Supported(d)) => last'.devices = <<>>)]_vars

C5_Witness ==
  /\ Enumerated /\ ~last.raised /\ ~changed
  /\ Len(bus) = 3
  /\ bus[1].pid = USB_PID_STREAMDECK_ORIGINAL_V2
  /\ bus[2].pid = USB_PID_STREAMDECK_ORIGINAL
  /\ bus[3].pid = USB_PID_STREAMDECK_ORIGINAL_V2
  /\ bus[1].path = "1-3"
  /\ Structure(last.devices) =
       << [cls |-> "StreamDeckOriginal", device |-> bus[2]],
          [cls |-> "StreamDeckOriginalV2", device |-> bus[1]],
          [cls |-> "StreamDeckOriginalV2", device |-> bus[3]] >>

(***************************************************************************)
(* C6: when the transport faults at a query, enumerate() raises that fault *)
(* itself, returns no list, and makes no query after the faulting one.     *)
(***************************************************************************)
C6_TransportFaultAbortsEnumerate ==
  [][(EnumStep /\ last'.faultAt > 0) =>
       /\ last'.raised
       /\ last'.exc = TransportFault(products[last'.faultAt].vid,
                                     products[last'.faultAt].pid)
       /\ last'.devices = <<>>
       /\ last'.calls = SubSeq(AllQueries, 1, last'.faultAt)]_vars

C6_Witness ==
  /\ Enumerated /\ last.faultAt = 2 /\ last.raised /\ ~changed
  /\ \E i \in 1..Len(bus) : bus[i].pid = USB_PID_STREAMDECK_ORIGINAL
  /\ last.devices = <<>>

(***************************************************************************)
(* C7: enumerate() keeps no cache: a call that does not fault asks the     *)
(* transport once per product and answers for the bus as it is at that     *)
(* call, with new wrappers; two calls in a row with the bus unchanged give *)
(* lists equal in structure and disjoint in wrapper identity.              *)
(***************************************************************************)
C7_EnumerateKeepsNoCache ==
  [][(EnumStep /\ ~last'.raised) =>
       /\ last'.calls = AllQueries
       /\ {d \in Range(bus) : Supported(d)}
            = {last'.devices[k].device : k \in 1..Len(last'.devices)}
       /\ Cardinality(Ids(last'.devices)) = Len(last'.devices)
       /\ (last.op = "enumerate" /\ ~last.raised) =>
            Ids(last'.devices) \cap Ids(last.devices) = {}
       /\ (last.op = "enumerate" /\ ~last.raised /\ ~changed) =>
            Structure(last'.devices) = Structure(last.devices)]_vars

C7_Witness ==
  /\ Enumerated /\ last.repeat /\ ~last.raised /\ ~changed
  /\ Len(last.devices) >= 2

(***************************************************************************)
(* C8: the stub named explicitly is selected whenever its probe passes:    *)
(* the manager holds a stub transport and no real backend is called,       *)
(* whatever the real backends would do.                                    *)
(***************************************************************************)
C8_ExplicitStubSucceeds ==
  (Constructed /\ last.arg = Arg("dummy") /\ last.env["dummy"] # "probe") =>
    /\ ~last.raised
    /\ last.transport.backend = "dummy"
    /\ manager = [transport |-> last.transport]
    /\ last.calls = <<Call("probe", "dummy"), Call("construct", "dummy")>>

C8_Witness ==
  /\ Constructed /\ last.arg = Arg("dummy") /\ ~last.raised
  /\ last.env["libusb"] = "probe"
  /\ manager.transport.backend = "dummy"

(***************************************************************************)
(* C10: the transport of a manager is the one its constructor selected:    *)
(* no step changes it, enumerate() probes and constructs nothing and uses  *)
(* that transport, and a constructor that raises leaves no manager.        *)
(***************************************************************************)
C10_TransportFixedAtConstruction ==
  [][/\ manager # NoManager => manager' = manager
     /\ EnumStep =>
          /\ manager # NoManager
          /\ manager' = manager
          /\ nextInst' = nextInst
          /\ last'.transport = manager.transport
          /\ \A i \in 1..Len(last'.calls) : last'.calls[i].fn = "enumerate"
     /\ (ConstructStep /\ last'.raised) => manager' = NoManager
     /\ (ConstructStep /\ ~last'.raised) =>
          manager' = [transport |-> last'.transport]]_vars

C10_Witness ==
  /\ manager # NoManager /\ enumCalls >= 2
  /\ Enumerated /\ last.raised
  /\ last.transport = manager.transport

====
